---- MODULE Spec2Model ----
(***************************************************************************)
(* Model of patterns/limiter/client-limiter.go: a producer goroutine, a    *)
(* buffered job queue (chan int), a pool of workers (startWorker), the     *)
(* unbuffered done channel held in controller.done, the WaitGroup          *)
(* controller.limit, and the three HTTP handlers stop, start, addWorker.   *)
(*                                                                         *)
(* One TLA+ step is one scheduling point of one goroutine.  Channels are   *)
(* modelled by what the Go runtime does: a send on the unbuffered done     *)
(* channel parks the sender until a receiver takes the value; a select     *)
(* with a default branch receives only from a parked sender or a closed    *)
(* channel; close wakes parked senders with a panic; a send or a close on  *)
(* a closed channel panics (net/http recovers a handler's panic, so only   *)
(* that handler dies).  controller.done is read and written without        *)
(* synchronisation: a reader may see the current channel or a stale one.   *)
(***************************************************************************)
EXTENDS Integers, Sequences, FiniteSets, TLC

\* ---- bounds ----------------------------------------------------------
NumJobs == 3     \* jobs the producer sends (10000 at client-limiter.go:65)
QueueCap == 2    \* capacity of the work channel (10 at client-limiter.go:41)
PoolSize == 1    \* workers per wgroup call (5 at client-limiter.go:90)
MaxStops == 2    \* /stop requests served
MaxStarts == 1   \* /start requests served
MaxAdds == 1     \* /worker/add requests served

MaxWorkers == PoolSize * (1 + MaxStarts) + MaxAdds
Workers == 1..MaxWorkers
Jobs == 0..(NumJobs - 1)
StopIds == 1..MaxStops
StartIds == 1..MaxStarts
Chans == 0..MaxStarts          \* 0: made by main; h: made by /start request h
Spawners == 0..MaxStarts       \* 0: main's wgroup call; h: /start request h's

\* Worker identities: the i-th worker of spawner c is c * PoolSize + i; the
\* workers of /worker/add requests come after them.
ByAdd == -1
By(w) == IF w > PoolSize * (1 + MaxStarts) THEN ByAdd ELSE (w - 1) \div PoolSize

VARIABLES
  proc,       \* "running" | "returned" (main returned) | "exit1" (os.Exit(1))
              \*           | "panic" (unrecovered panic outside a handler)
  queue,      \* buffered contents of c.queue
  qClosed,    \* close(work) has run
  prodI,      \* producer's loop variable i
  deqLog,     \* the jobs received from c.queue, in the order of the receives
  mainPc,     \* "wgroup" | "wait" | "close" | "return"
  wgI,        \* loop variable i of each wgroup call
  done,       \* the channel currently stored in c.done
  chClosed,   \* per done channel: closed
  sendq,      \* per done channel: parked senders, in arrival order
  stopPc,     \* per /stop request: "idle" | "parked" | "close" | "returned"
              \*                    | "panicSend" | "panicClose"
  stopCh,     \* per /stop request: the channel it sent on
  startPc,    \* per /start request: "idle" | "wgroup" | "done"
  resumed,    \* a /start request arrived after a /stop request had returned
  adds,       \* /worker/add requests served so far
  wPc,        \* per worker: "none" | "range" | "select" | "request" | "exited"
  wJob,       \* per worker: the job ww it holds
  wLast,      \* per worker: it took the <-c.done branch (returns after request)
  birth,      \* per worker: c.done at the go statement that spawned it
  limit,      \* counter of the WaitGroup c.limit
  execCount,  \* per job: completed request(job) calls
  afterStop,  \* per worker: jobs dequeued after a /stop arrived for its birth channel
  afterFire   \* per worker: jobs dequeued while its birth channel was closed

vars == <<proc, queue, qClosed, prodI, deqLog, resumed, mainPc, wgI, done, chClosed, sendq,
          stopPc, stopCh, startPc, adds, wPc, wJob, wLast, birth,
          limit, execCount, afterStop, afterFire>>

prodVars == <<queue, qClosed, prodI, deqLog>>
mainVars == <<mainPc>>
chanVars == <<done, chClosed, sendq>>
stopVars == <<stopPc, stopCh>>
startVars == <<startPc, wgI, resumed>>
workerVars == <<wPc, wJob, wLast, birth, limit, afterStop, afterFire>>

Live(w) == wPc[w] \in {"range", "select", "request"}

\* a /stop request has started its send on channel g
StopCalledOn(g) == \E h \in StopIds : stopPc[h] # "idle" /\ stopCh[h] = g

Init ==
  /\ proc = "running"
  /\ queue = << >>
  /\ qClosed = FALSE
  /\ prodI = 0
  /\ deqLog = << >>
  /\ resumed = FALSE
  /\ mainPc = "wgroup"
  /\ wgI = [c \in Spawners |-> 0]
  /\ done = 0
  /\ chClosed = [g \in Chans |-> FALSE]
  /\ sendq = [g \in Chans |-> << >>]
  /\ stopPc = [h \in StopIds |-> "idle"]
  /\ stopCh = [h \in StopIds |-> 0]
  /\ startPc = [h \in StartIds |-> "idle"]
  /\ adds = 0
  /\ wPc = [w \in Workers |-> "none"]
  /\ wJob = [w \in Workers |-> 0]
  /\ wLast = [w \in Workers |-> FALSE]
  /\ birth = [w \in Workers |-> 0]
  /\ limit = 0
  /\ execCount = [j \in Jobs |-> 0]
  /\ afterStop = [w \in Workers |-> 0]
  /\ afterFire = [w \in Workers |-> 0]

\* variant of ProducerSend: the send does not wait for room in the buffer
ProducerSend_NoBlock ==
  /\ proc = "running"
  /\ prodI < NumJobs
  /\ IF qClosed
       THEN proc' = "panic" /\ UNCHANGED <<queue, prodI>>
       ELSE /\ queue' = Append(queue, prodI)
            /\ prodI' = prodI + 1
            /\ UNCHANGED proc
  /\ UNCHANGED <<qClosed, deqLog, mainVars, chanVars, stopVars, startVars, adds,
                 workerVars, execCount>>

\* ---- producer (anonymous goroutine of main) ---------------------------
\* work <- i: blocks while the buffer is full
ProducerSend ==
  /\ proc = "running"
  /\ prodI < NumJobs
  /\ IF qClosed
       THEN \* send on a closed channel panics; the goroutine is not a handler
            proc' = "panic" /\ UNCHANGED <<queue, prodI>>
       ELSE /\ Len(queue) < QueueCap
            /\ queue' = Append(queue, prodI)
            /\ prodI' = prodI + 1
            /\ UNCHANGED proc
  /\ UNCHANGED <<qClosed, deqLog, mainVars, chanVars, stopVars, startVars, adds,
                 workerVars, execCount>>

\* variant of SpawnWorker: the worker is started without limit.Add(1)
SpawnWorker_NoAdd(w) ==
  /\ limit' = limit
  /\ wPc' = [wPc EXCEPT ![w] = "range"]
  /\ birth' = [birth EXCEPT ![w] = done]
  /\ UNCHANGED <<wJob, wLast, afterStop, afterFire>>

\* ---- c.limit.Add(1); go c.startWorker() -------------------------------
SpawnWorker(w) ==
  /\ limit' = limit + 1
  /\ wPc' = [wPc EXCEPT ![w] = "range"]
  /\ birth' = [birth EXCEPT ![w] = done]
  /\ UNCHANGED <<wJob, wLast, afterStop, afterFire>>

\* one iteration of wgroup's loop, run by main (c = 0) or by the goroutine
\* that /start request c launched
Wgroup(c) ==
  /\ proc = "running"
  /\ IF c = 0 THEN mainPc = "wgroup" ELSE startPc[c] = "wgroup"
  /\ wgI[c] < PoolSize
  /\ SpawnWorker(c * PoolSize + wgI[c] + 1)
  /\ wgI' = [wgI EXCEPT ![c] = wgI[c] + 1]
  /\ IF wgI[c] + 1 = PoolSize
       THEN IF c = 0
              THEN mainPc' = "wait" /\ UNCHANGED startPc
              ELSE startPc' = [startPc EXCEPT ![c] = "done"] /\ UNCHANGED mainPc
       ELSE UNCHANGED <<mainPc, startPc>>
  /\ UNCHANGED <<proc, prodVars, chanVars, stopVars, resumed, adds, execCount>>

\* variant of MainWait: main does not wait for the producer before close
MainWait_NoWait ==
  /\ proc = "running"
  /\ mainPc = "wait"
  /\ mainPc' = "close"
  /\ UNCHANGED <<proc, prodVars, startVars, chanVars, stopVars, adds,
                 workerVars, execCount>>

\* ---- main ------------------------------------------------------------
\* wg.Wait(): returns once the producer has run wg.Done
MainWait ==
  /\ proc = "running"
  /\ mainPc = "wait"
  /\ prodI = NumJobs
  /\ mainPc' = "close"
  /\ UNCHANGED <<proc, prodVars, startVars, chanVars, stopVars, adds,
                 workerVars, execCount>>

\* close(work)
MainClose ==
  /\ proc = "running"
  /\ mainPc = "close"
  /\ IF qClosed
       THEN proc' = "panic" /\ UNCHANGED <<qClosed, mainPc>>   \* close of closed channel
       ELSE qClosed' = TRUE /\ mainPc' = "return" /\ UNCHANGED proc
  /\ UNCHANGED <<queue, prodI, deqLog, startVars, chanVars, stopVars, adds,
                 workerVars, execCount>>

\* main returns: the process ends, with every goroutine
MainReturn ==
  /\ proc = "running"
  /\ mainPc = "return"
  /\ proc' = "returned"
  /\ UNCHANGED <<prodVars, mainVars, startVars, chanVars, stopVars, adds,
                 workerVars, execCount>>

\* variant of Dequeue: the receive takes the newest buffered job
Dequeue_Lifo(w) ==
  /\ proc = "running"
  /\ wPc[w] = "range"
  /\ queue # << >>
  /\ wJob' = [wJob EXCEPT ![w] = queue[Len(queue)]]
  /\ queue' = SubSeq(queue, 1, Len(queue) - 1)
  /\ deqLog' = Append(deqLog, queue[Len(queue)])
  /\ wPc' = [wPc EXCEPT ![w] = "select"]
  /\ afterStop' = [afterStop EXCEPT ![w] = IF StopCalledOn(birth[w]) THEN @ + 1 ELSE @]
  /\ afterFire' = [afterFire EXCEPT ![w] = IF chClosed[birth[w]] THEN @ + 1 ELSE @]
  /\ UNCHANGED <<proc, qClosed, prodI, mainVars, chanVars, stopVars, startVars,
                 adds, wLast, birth, limit, execCount>>

\* ---- startWorker -----------------------------------------------------
\* for ww := range c.queue: a job is received
Dequeue(w) ==
  /\ proc = "running"
  /\ wPc[w] = "range"
  /\ queue # << >>
  /\ wJob' = [wJob EXCEPT ![w] = Head(queue)]
  /\ queue' = Tail(queue)
  /\ deqLog' = Append(deqLog, Head(queue))
  /\ wPc' = [wPc EXCEPT ![w] = "select"]
  /\ afterStop' = [afterStop EXCEPT ![w] = IF StopCalledOn(birth[w]) THEN @ + 1 ELSE @]
  /\ afterFire' = [afterFire EXCEPT ![w] = IF chClosed[birth[w]] THEN @ + 1 ELSE @]
  /\ UNCHANGED <<proc, qClosed, prodI, mainVars, chanVars, stopVars, startVars,
                 adds, wLast, birth, limit, execCount>>

\* variant of RangeEnd: the worker returns without limit.Done
RangeEnd_NoDone(w) ==
  /\ proc = "running"
  /\ wPc[w] = "range"
  /\ queue = << >>
  /\ qClosed
  /\ wPc' = [wPc EXCEPT ![w] = "exited"]
  /\ UNCHANGED <<proc, prodVars, mainVars, chanVars, stopVars, startVars, adds,
                 limit, wJob, wLast, birth, execCount, afterStop, afterFire>>

\* for ww := range c.queue: the queue is closed and empty; deferred limit.Done
RangeEnd(w) ==
  /\ proc = "running"
  /\ wPc[w] = "range"
  /\ queue = << >>
  /\ qClosed
  /\ wPc' = [wPc EXCEPT ![w] = "exited"]
  /\ limit' = limit - 1
  /\ UNCHANGED <<proc, prodVars, mainVars, chanVars, stopVars, startVars, adds,
                 wJob, wLast, birth, execCount, afterStop, afterFire>>

\* variant of Select: the done branch returns without calling request
Select_Abandon(w) ==
  /\ proc = "running"
  /\ wPc[w] = "select"
  /\ \E g \in birth[w]..done :
       IF sendq[g] # << >> \/ chClosed[g]
         THEN /\ IF sendq[g] # << >>
                   THEN /\ sendq' = [sendq EXCEPT ![g] = Tail(@)]
                        /\ stopPc' = [stopPc EXCEPT ![Head(sendq[g])] = "close"]
                   ELSE UNCHANGED <<sendq, stopPc>>
              /\ wPc' = [wPc EXCEPT ![w] = "exited"]
              /\ limit' = limit - 1
              /\ UNCHANGED wLast
         ELSE /\ wLast' = [wLast EXCEPT ![w] = FALSE]
              /\ wPc' = [wPc EXCEPT ![w] = "request"]
              /\ UNCHANGED <<sendq, stopPc, limit>>
  /\ UNCHANGED <<proc, prodVars, mainVars, done, chClosed, stopCh, startVars,
                 adds, wJob, birth, execCount, afterStop, afterFire>>

\* the channels a read of c.done by worker w can yield: the current one, or
\* (unsynchronised read) one stored since the worker was spawned
DoneSeenBy(w) == birth[w]..done

\* select { case <-c.done: ... default: ... } on channel g
Select(w) ==
  /\ proc = "running"
  /\ wPc[w] = "select"
  /\ \E g \in DoneSeenBy(w) :
       IF sendq[g] # << >>
         THEN \* a parked sender hands over its value and resumes
              /\ sendq' = [sendq EXCEPT ![g] = Tail(@)]
              /\ stopPc' = [stopPc EXCEPT ![Head(sendq[g])] = "close"]
              /\ wLast' = [wLast EXCEPT ![w] = TRUE]
         ELSE /\ wLast' = [wLast EXCEPT ![w] = chClosed[g]]
              /\ UNCHANGED <<sendq, stopPc>>
  /\ wPc' = [wPc EXCEPT ![w] = "request"]
  /\ UNCHANGED <<proc, prodVars, mainVars, done, chClosed, stopCh, startVars,
                 adds, wJob, birth, limit, execCount, afterStop,
                 afterFire>>

\* c.request(ww) succeeds; after the done branch the worker returns
RequestOk(w) ==
  /\ proc = "running"
  /\ wPc[w] = "request"
  /\ execCount' = [execCount EXCEPT ![wJob[w]] = @ + 1]
  /\ IF wLast[w]
       THEN wPc' = [wPc EXCEPT ![w] = "exited"] /\ limit' = limit - 1
       ELSE wPc' = [wPc EXCEPT ![w] = "range"] /\ UNCHANGED limit
  /\ wJob' = [wJob EXCEPT ![w] = 0]          \* ww goes out of scope
  /\ wLast' = [wLast EXCEPT ![w] = FALSE]
  /\ UNCHANGED <<proc, prodVars, mainVars, chanVars, stopVars, startVars, adds,
                 birth, afterStop, afterFire>>

\* c.request(ww): Get returns an error; os.Exit(1)
RequestFail(w) ==
  /\ proc = "running"
  /\ wPc[w] = "request"
  /\ proc' = "exit1"
  /\ UNCHANGED <<prodVars, mainVars, chanVars, stopVars, startVars, adds,
                 workerVars, execCount>>

\* ---- stop handler ----------------------------------------------------
\* c.done <- struct{}{}: no receiver ever blocks on done, so the sender parks
StopCall(h) ==
  /\ proc = "running"
  /\ stopPc[h] = "idle"
  /\ h > 1 => stopPc[h - 1] # "idle"        \* requests are numbered by arrival
  /\ stopCh' = [stopCh EXCEPT ![h] = done]
  /\ IF chClosed[done]
       THEN /\ stopPc' = [stopPc EXCEPT ![h] = "panicSend"]
            /\ UNCHANGED sendq
       ELSE /\ stopPc' = [stopPc EXCEPT ![h] = "parked"]
            /\ sendq' = [sendq EXCEPT ![done] = Append(@, h)]
  /\ UNCHANGED <<proc, prodVars, mainVars, done, chClosed, startVars, adds,
                 workerVars, execCount>>

\* variant of StopClose: stop also closes the work queue
StopClose_ClosesQueue(h) ==
  /\ proc = "running"
  /\ stopPc[h] = "close"
  /\ qClosed' = TRUE
  /\ \E g \in stopCh[h]..done :
       IF chClosed[g]
         THEN /\ stopPc' = [stopPc EXCEPT ![h] = "panicClose"]
              /\ UNCHANGED <<chClosed, sendq>>
         ELSE /\ chClosed' = [chClosed EXCEPT ![g] = TRUE]
              /\ sendq' = [sendq EXCEPT ![g] = << >>]
              /\ stopPc' = [k \in StopIds |->
                              IF k = h THEN "returned"
                              ELSE IF \E i \in 1..Len(sendq[g]) : sendq[g][i] = k
                                     THEN "panicSend"
                                     ELSE stopPc[k]]
  /\ UNCHANGED <<proc, queue, prodI, deqLog, mainVars, done, stopCh, startVars,
                 adds, workerVars, execCount>>

\* close(c.done): c.done is read again
StopClose(h) ==
  /\ proc = "running"
  /\ stopPc[h] = "close"
  /\ \E g \in stopCh[h]..done :
       IF chClosed[g]
         THEN /\ stopPc' = [stopPc EXCEPT ![h] = "panicClose"]
              /\ UNCHANGED <<chClosed, sendq>>
         ELSE /\ chClosed' = [chClosed EXCEPT ![g] = TRUE]
              /\ sendq' = [sendq EXCEPT ![g] = << >>]
              /\ stopPc' = [k \in StopIds |->
                              IF k = h THEN "returned"
                              ELSE IF \E i \in 1..Len(sendq[g]) : sendq[g][i] = k
                                     THEN "panicSend"
                                     ELSE stopPc[k]]
  /\ UNCHANGED <<proc, prodVars, mainVars, done, stopCh, startVars, adds,
                 workerVars, execCount>>

\* ---- start handler ---------------------------------------------------
\* c.done = make(chan struct{}); go c.wgroup()
StartCall(h) ==
  /\ proc = "running"
  /\ startPc[h] = "idle"
  /\ h > 1 => startPc[h - 1] # "idle"       \* requests are numbered by arrival
  /\ done' = done + 1
  /\ startPc' = [startPc EXCEPT ![h] = "wgroup"]
  /\ resumed' = (resumed \/ \E k \in StopIds : stopPc[k] = "returned")
  /\ UNCHANGED <<proc, prodVars, mainVars, wgI, chClosed, sendq, stopVars, adds,
                 workerVars, execCount>>

\* ---- addWorker handler -----------------------------------------------
AddWorker ==
  /\ proc = "running"
  /\ adds < MaxAdds
  /\ adds' = adds + 1
  /\ SpawnWorker(PoolSize * (1 + MaxStarts) + adds + 1)
  /\ UNCHANGED <<proc, prodVars, mainVars, chanVars, stopVars, startVars,
                 execCount>>

Next ==
  \/ ProducerSend
  \/ \E c \in Spawners : Wgroup(c)
  \/ MainWait
  \/ MainClose
  \/ MainReturn
  \/ \E w \in Workers : Dequeue(w)
  \/ \E w \in Workers : RangeEnd(w)
  \/ \E w \in Workers : Select(w)
  \/ \E w \in Workers : RequestOk(w)
  \/ \E w \in Workers : RequestFail(w)
  \/ \E h \in StopIds : StopCall(h)
  \/ \E h \in StopIds : StopClose(h)
  \/ \E h \in StartIds : StartCall(h)
  \/ AddWorker

Spec == Init /\ [][Next]_vars

\* ======================================================================
\* Claims
\* ======================================================================
AddWorkers == {w \in Workers : By(w) = ByAdd}
LiveAt(pcf, w) == pcf[w] \in {"range", "select", "request"}

\* C1 (no lost jobs), in the form a finite run decides: when the process has
\* ended by main returning, every job the producer enqueued has had request
\* run on it exactly once.
C1_NoLostJobs ==
  proc = "returned" => \A j \in Jobs : j < prodI => execCount[j] = 1

\* C2 (at most one extra job after Stop): no worker dequeues more than one job
\* after a Stop has been called on the signal of the worker's generation.
C2_AtMostOneAfterStop ==
  \A w \in Workers : afterStop[w] <= 1

\* C3 (Stop does not block): a Stop call that has started and not finished can
\* always take its next step by itself, whatever the workers are doing.
StopStep(h) == StopCall(h) \/ StopClose(h)
C3_StopDoesNotBlock ==
  \A h \in StopIds :
    (proc = "running" /\ stopPc[h] \in {"parked", "close"}) => ENABLED StopStep(h)

\* C4 (a failed downstream call is recovered locally): when a worker's
\* request ends without the job having been completed, the process keeps
\* running, that worker goes on to its next dequeue, and no other worker and
\* no queued job is touched.
RequestFailedStep(w) ==
  /\ proc = "running" /\ wPc[w] = "request"
  /\ execCount' = execCount
  /\ proc' # "returned"
  /\ (wPc'[w] # "request" \/ proc' # proc)
C4_FailureIsLocal ==
  [][\A w \in Workers :
       RequestFailedStep(w)
         => /\ proc' = "running"
            /\ wPc'[w] = "range"
            /\ \A v \in Workers \ {w} : wPc'[v] = wPc[v]
            /\ queue' = queue]_vars

\* C5 (scale-up safety): a worker spawned by addWorker dequeues at most one
\* job after the signal of its generation has been fired (closed), and after
\* that job it exits instead of returning to the queue.
C5_ScaleUpSafety ==
  \A w \in AddWorkers :
    /\ afterFire[w] <= 1
    /\ afterFire[w] = 1 => wPc[w] # "range"

\* C6 (Stop never fires a signal twice): no Stop ever closes a done channel
\* that is already closed, and none sends on a closed one; the Go runtime
\* answers either with a panic in the handler.
C6_NoDoubleFire ==
  \A h \in StopIds : stopPc[h] \notin {"panicSend", "panicClose"}

\* C7 (a Stop racing a Start acts on one generation): the step by which a
\* Stop finishes closes the channel that was current when the Stop was
\* called, and no other channel.
C7_StopSingleGeneration ==
  [][\A h \in StopIds :
       (stopPc[h] = "close" /\ stopPc'[h] = "returned")
         => /\ chClosed'[stopCh[h]]
            /\ \A g \in Chans \ {stopCh[h]} : chClosed'[g] = chClosed[g]]_vars

\* C8 (workers are pinned to their generation's signal): a cancellation
\* check made by a worker while the signal of the generation it was started
\* under is fired observes 'signaled'.
C8_PinnedToGeneration ==
  [][\A w \in Workers :
       (wPc[w] = "select" /\ wPc'[w] = "request" /\ chClosed[birth[w]])
         => wLast'[w]]_vars

\* C9 (an operation called in a state that forbids it changes nothing): a
\* Start called while a worker is live (pool Running or Draining), and a Stop
\* or ScaleUp called while the pool is not Running (no live worker, or the
\* current signal fired), leave the live workers, the Active Worker Count,
\* the current signal and its fired status as they were.
PoolRunning == (\E w \in Workers : Live(w)) /\ ~chClosed[done]
PoolBusy == \E w \in Workers : Live(w)
PoolStateUnchanged ==
  /\ done' = done
  /\ chClosed' = chClosed
  /\ limit' = limit
  /\ \A w \in Workers : LiveAt(wPc', w) = LiveAt(wPc, w)
C9_ForbiddenCallNoEffect ==
  [][/\ \A h \in StartIds :
          (PoolBusy /\ startPc[h] = "idle" /\ startPc'[h] # "idle")
            => PoolStateUnchanged
     /\ \A h \in StopIds :
          (~PoolRunning /\ stopPc[h] = "idle" /\ stopPc'[h] # "idle")
            => PoolStateUnchanged
     /\ (~PoolRunning /\ adds' # adds) => PoolStateUnchanged]_vars

\* C10 (Start creates a fresh generation of exactly n workers): at the step
\* that completes the wgroup call of a Start, the current signal is the one
\* this Start made and is unfired, the PoolSize workers it spawned are bound
\* to it, and the Active Worker Count counts exactly the workers of this Start
\* (PoolSize, less those that have already exited).
C10_StartFreshGeneration ==
  [][\A h \in StartIds :
       (startPc[h] = "wgroup" /\ startPc'[h] = "done")
         => /\ done' = h
            /\ ~chClosed'[h]
            /\ \A w \in Workers : By(w) = h => birth'[w] = h
            /\ limit' = Cardinality({w \in Workers : By(w) = h /\ LiveAt(wPc', w)})]_vars

\* C11 (backpressure): the queue never holds more than QueueCap jobs, and no
\* Enqueue of the producer completes from a state in which the queue is full;
\* it completes only once a dequeue has made room.
C11_Backpressure ==
  [][/\ Len(queue') <= QueueCap
     /\ prodI' # prodI => (Len(queue) < QueueCap /\ Len(queue') = Len(queue) + 1)]_vars
\* the producer is held back by a full queue
C11_Witness ==
  proc = "running" /\ Len(queue) = QueueCap /\ prodI < NumJobs

\* C12 (FIFO delivery): the jobs dequeued so far, over all workers, are in
\* order a prefix of the jobs enqueued so far (0, 1, 2, ... as the producer
\* sends them); and while only one worker has ever been started, the jobs
\* executed so far are an initial segment of them, i.e. run in enqueue order.
Enqueued == [k \in 1..prodI |-> k - 1]
OneWorkerOnly == Cardinality({w \in Workers : wPc[w] # "none"}) <= 1
C12_FifoDelivery ==
  /\ Len(deqLog) <= prodI
  /\ deqLog = SubSeq(Enqueued, 1, Len(deqLog))
  /\ OneWorkerOnly =>
       \A j \in Jobs : execCount[j] > 0 => \A i \in 0..(j - 1) : execCount[i] > 0
\* one worker alone has taken every job, in order, from a queue that was full
C12_Witness ==
  OneWorkerOnly /\ Len(deqLog) = NumJobs /\ execCount[NumJobs - 2] = 1

\* C13 (drain terminates the pool), in the form a finite run decides: when
\* the process has ended by main returning after close(work), no worker is
\* still live, the queue is empty and the Active Worker Count is 0.
C13_DrainTerminates ==
  proc = "returned" =>
    /\ \A w \in Workers : ~Live(w)
    /\ queue = << >>
    /\ limit = 0

\* C14 (pool size bounds downstream concurrency): the number of request calls
\* in flight is at most the number of live workers, which is at most the
\* Active Worker Count.
InFlight == {w \in Workers : wPc[w] = "request"}
LiveSet == {w \in Workers : Live(w)}
C14_ConcurrencyBound ==
  /\ Cardinality(InFlight) <= Cardinality(LiveSet)
  /\ Cardinality(LiveSet) <= limit
\* two downstream calls are in flight at once
C14_Witness ==
  proc = "running" /\ Cardinality(InFlight) >= 2

\* C15 (pause/resume keeps queued work), in the form a finite run decides:
\* when a Start was issued after a Stop had completed and the process has
\* ended by main returning, every job the producer enqueued has been executed.
C15_ResumeKeepsQueuedWork ==
  (proc = "returned" /\ resumed) => \A j \in Jobs : j < prodI => execCount[j] = 1

\* C16 (a dequeued job is run exactly once by its worker): a worker leaves
\* its cancellation check only into request, with the job it dequeued; it
\* leaves request only by completing that job once; a dequeued job is held by
\* no other worker and has not been executed; no job is executed twice.
C16_DequeuedJobRunsOnce ==
  [][/\ \A w \in Workers :
          (wPc[w] = "select" /\ wPc'[w] # "select")
            => (wPc'[w] = "request" /\ wJob'[w] = wJob[w])
     /\ \A w \in Workers :
          (wPc[w] = "request" /\ wPc'[w] # "request")
            => execCount'[wJob[w]] = execCount[wJob[w]] + 1
     /\ \A w \in Workers :
          (wPc[w] = "range" /\ wPc'[w] = "select")
            => /\ execCount[wJob'[w]] = 0
               /\ \A v \in Workers \ {w} :
                    wPc[v] \in {"select", "request"} => wJob[v] # wJob'[w]
     /\ \A j \in Jobs : execCount'[j] <= 1]_vars
\* a worker that saw the signal has run its job and returned, queue still open
C16_Witness ==
  /\ ~qClosed
  /\ \E w \in Workers : wPc[w] = "exited" /\ afterStop[w] >= 1
  /\ \E j \in Jobs : execCount[j] = 1

\* C17 (Active Worker Count): the WaitGroup counter is never negative and
\* equals the number of workers started and not yet exited; an addWorker
\* raises it by exactly one, a worker's exit lowers it by exactly one.
C17_ActiveWorkerCount ==
  [][/\ limit' >= 0
     /\ limit' = Cardinality({w \in Workers : LiveAt(wPc', w)})
     /\ adds' # adds => limit' = limit + 1
     /\ \A w \in Workers :
          (Live(w) /\ wPc'[w] = "exited") => limit' = limit - 1]_vars
\* an added worker is counted and another worker has exited
C17_Witness ==
  adds >= 1 /\ limit >= 1 /\ \E w \in Workers : wPc[w] = "exited"

\* C18 (the queue is closed once, after the last Enqueue): nothing is sent on
\* the closed queue and it is not closed again (either would panic), a closed
\* queue stays closed, and the step that closes it is taken only when the
\* producer has completed all its sends.
C18_CloseOnceAfterLastEnqueue ==
  [][/\ proc' # "panic"
     /\ qClosed => (qClosed' /\ prodI' = prodI /\ Len(queue') <= Len(queue))
     /\ (~qClosed /\ qClosed') => prodI = NumJobs]_vars
\* the queue has been closed with jobs still buffered
C18_Witness ==
  proc = "running" /\ qClosed /\ queue # << >>

\* C19 (control commands leave the queue untouched): a step of a stop, start
\* or addWorker request (start's wgroup loop included) changes neither the
\* queue's contents, nor what has been enqueued or dequeued, nor whether the
\* queue is closed.
ControlStep ==
  \/ \E h \in StopIds : stopPc[h] \in {"idle", "close"} /\ stopPc'[h] # stopPc[h]
  \/ \E h \in StartIds : startPc'[h] # startPc[h] \/ wgI'[h] # wgI[h]
  \/ adds' # adds
C19_ControlLeavesQueue ==
  [][ControlStep =>
       (queue' = queue /\ qClosed' = qClosed /\ prodI' = prodI /\ deqLog' = deqLog)]_vars
\* every kind of control command has run while jobs were buffered
C19_Witness ==
  /\ queue # << >> /\ ~qClosed
  /\ \E h \in StopIds : stopPc[h] = "returned"
  /\ \E h \in StartIds : startPc[h] = "done"
  /\ adds >= 1

TypeOK ==
  /\ proc \in {"running", "returned", "exit1", "panic"}
  /\ Len(queue) <= QueueCap
  /\ done \in Chans
  /\ limit \in 0..MaxWorkers
====
